---- MODULE Spec2Model ----
(***************************************************************************)
(* The configuration screen of termpysui (screens/configs.py): three       *)
(* section controllers (ConfigGroup, ConfigProfile, ConfigIdentities),     *)
(* each with an EditableDataTable, the modal cell editors, the             *)
(* CellValueChange message, and the active-row switch of ConfigRow.        *)
(*                                                                         *)
(* Everything runs on one event loop.  A ModalScreen on top of the screen  *)
(* stack takes every key, so the grid's bindings are reachable only while  *)
(* no modal is open; a message handler runs to completion; an exception    *)
(* that leaves a handler or a worker ends the application.                 *)
(***************************************************************************)
EXTENDS Integers, Sequences, FiniteSets, TLC

VARIABLES
    disk,                 \* the configuration documents the picker can select
    path,                 \* document the live PysuiConfiguration was read from (0: none)
    model,                \* PysuiConfiguration.model of the live configuration
    configuration,        \* ConfigRow.configuration of each section (0: None)
    configuration_group,  \* ConfigRow.configuration_group of each section (0: None)
    table,                \* the EditableDataTable of each section: rows and cursor
    screen,               \* the modal screen on top of the stack, if any
    queue,                \* CellValueChange messages posted and not yet handled
    saves,                \* number of calls of PysuiConfiguration.save()
    crashed,              \* an exception left a handler or a worker
    edits,                \* number of edit and add requests so far
    hist                  \* history: the last step taken and the state it started from

vars == <<disk, path, model, configuration, configuration_group, table, screen,
          queue, saves, crashed, edits, hist>>

----------------------------------------------------------------------------
(* Bounds of the model *)

\* requests explored: edits of a cell and presses of an Add button
MaxEdits == 2

\* longest text submitted to an editor opened on a typed value
MaxText == 3

\* most rows of a grid handed to row_with_value
MaxRows == 3

----------------------------------------------------------------------------
(* Values *)

None == "<None>"

Groups == "Groups"
Profiles == "Profiles"
Identities == "Identities"

\* PyCfgScreen.config_sections, in the order the sections are constructed
\* and so registered in ConfigRow._CONFIG_ROWS
config_sections == <<Groups, Profiles, Identities>>

Sections == {config_sections[i] : i \in 1..Len(config_sections)}

Coordinate(r, c) == [row |-> r, column |-> c]

\* Coordinate.left(), Coordinate.right()
Left(c) == Coordinate(c.row, c.column - 1)
Right(c) == Coordinate(c.row, c.column + 1)

\* CellConfig(field_name, editable, inline, validators, dialog); the
\* validators are bound in on_mount (see Validate)
CellConfig(f, e, i, d) == [field_name |-> f, editable |-> e, inline |-> i, dialog |-> d]

\* column policies under which the Public Key and the Address of an
\* identity are editable inline
edit_config_all_editable(s) ==
    CASE s = Groups ->
           << CellConfig("Name", TRUE, TRUE, FALSE),
              CellConfig("Active", TRUE, FALSE, TRUE) >>
      [] s = Profiles ->
           << CellConfig("Name", TRUE, TRUE, FALSE),
              CellConfig("Active", TRUE, FALSE, TRUE),
              CellConfig("URL", TRUE, TRUE, FALSE) >>
      [] s = Identities ->
           << CellConfig("Alias", TRUE, TRUE, FALSE),
              CellConfig("Active", TRUE, FALSE, TRUE),
              CellConfig("Public Key", TRUE, TRUE, FALSE),
              CellConfig("Address", TRUE, TRUE, FALSE) >>

\* _CG_EDITS, _CP_EDITS, _CI_EDITS
edit_config(s) ==
    CASE s = Groups ->
           << CellConfig("Name", TRUE, TRUE, FALSE),
              CellConfig("Active", TRUE, FALSE, TRUE) >>
      [] s = Profiles ->
           << CellConfig("Name", TRUE, TRUE, FALSE),
              CellConfig("Active", TRUE, FALSE, TRUE),
              CellConfig("URL", TRUE, TRUE, FALSE) >>
      [] s = Identities ->
           << CellConfig("Alias", TRUE, TRUE, FALSE),
              CellConfig("Active", TRUE, FALSE, TRUE),
              CellConfig("Public Key", FALSE, FALSE, FALSE),
              CellConfig("Address", FALSE, FALSE, FALSE) >>

\* the options the three sections hand to SingleChoiceDialog
ChoiceOptions == <<"Yes", "No">>

\* what SingleChoiceDialog can be dismissed with: exactly one of its
\* options, or None when it is cancelled
ChoiceResults == {ChoiceOptions[i] : i \in 1..Len(ChoiceOptions)} \cup {None}

----------------------------------------------------------------------------
(* The documents on disk when the screen is mounted *)

Profile(n, u) == [profile_name |-> n, url |-> u]
Alias(a, k) == [alias |-> a, public_key_base64 |-> k]

ProfileGroup(n, up, ps, ua, als, ads) ==
    [group_name |-> n, using_profile |-> up, profiles |-> ps,
     using_address |-> ua, alias_list |-> als, address_list |-> ads]

\* a document with three groups, of which the second has a profile but
\* names none as the one in use, and the third has no profiles
DocA ==
    [group_active |-> "alpha",
     groups |-> <<
        ProfileGroup("alpha", "beta",
                     <<Profile("alpha", "http://a.io"), Profile("beta", "http://b.io")>>,
                     "0xa1",
                     <<Alias("alpha", "pk1"), Alias("beta", "pk2")>>, <<"0xa1", "0xa2">>),
        ProfileGroup("beta", "", <<Profile("gamma", "http://a.io")>>, "", <<>>, <<>>),
        ProfileGroup("gamma", "", <<>>, "", <<>>, <<>>) >>]

\* a document with two groups
DocB ==
    [group_active |-> "alpha",
     groups |-> <<
        ProfileGroup("alpha", "alpha", <<Profile("alpha", "http://a.io")>>, "", <<>>, <<>>),
        ProfileGroup("beta", "", <<>>, "", <<>>, <<>>) >>]

Docs == <<DocA, DocB>>

\* a URL of 34 characters: too long for a group or profile name
LongURL == "http://node.example.io/0123456789a"

\* what the user may type into the inline editor
InputTexts == {"beta", "zeta", "ab", LongURL}

\* textual.validation.URL: the text parses to a scheme and a network location
IsURL(text) == text \in {"http://a.io", "http://b.io", LongURL}

----------------------------------------------------------------------------
(* DataTable: rows in insertion order, each with its label and its cells;  *)
(* coordinates are 0-based as in textual.coordinate.Coordinate             *)

\* rows labelled from 0
row_labelled_from_zero(label, cells) == [label |-> label - 1, cells |-> cells]

Row(label, cells) == [label |-> label, cells |-> cells]

\* DataTable.clear(): no rows, the cursor back at the origin
Clear == [rows |-> <<>>, cursor |-> Coordinate(0, 0)]

\* DataTable.add_row(*cells, label=label)
AddRow(t, cells, label) == [t EXCEPT !.rows = Append(@, Row(label, cells))]

\* DataTable.is_valid_coordinate
IsValidCoordinate(t, c) ==
    /\ c.row \in 0..(Len(t.rows) - 1)
    /\ c.column \in 0..(Len(t.rows[c.row + 1].cells) - 1)

\* DataTable.get_cell_at, read through str() as every caller does
GetCellAt(t, c) == t.rows[c.row + 1].cells[c.column + 1]

\* an update_cell_at that leaves the cell as it is
update_cell_at_ignored(t, c, value) == t

\* DataTable.update_cell_at(coordinate, value, update_width=True)
UpdateCellAt(t, c, value) ==
    [t EXCEPT !.rows[c.row + 1].cells[c.column + 1] = value]

\* DataTable.move_cursor(row=..., column=...)
MoveCursorTo(t, r, c) == [t EXCEPT !.cursor = Coordinate(r, c)]

\* all the coordinates of the cells of a table
Coordinates(t) ==
    {x \in [row : 0..(Len(t.rows) - 1), column : 0..3] : IsValidCoordinate(t, x)}

\* a row_with_value that stops at the first row it finds
row_with_value_first(t, row_cell, value) ==
    IF \E i \in 1..Len(t.rows) : t.rows[i].cells[row_cell + 1] = value
    THEN << t.rows[CHOOSE i \in 1..Len(t.rows) :
                      /\ t.rows[i].cells[row_cell + 1] = value
                      /\ \A j \in 1..(i - 1) : t.rows[j].cells[row_cell + 1] # value] >>
    ELSE <<>>

\* EditableDataTable.row_with_value(row_cell, value): the rows, in the
\* table's order, whose cell in column row_cell reads value
row_with_value(t, row_cell, value) ==
    SelectSeq(t.rows, LAMBDA in_rowc : in_rowc.cells[row_cell + 1] = value)

----------------------------------------------------------------------------
(* The domain source (pysui PysuiConfiguration and ProfileGroup)           *)

\* PysuiConfiguration.group_names()
group_names(m) == [i \in 1..Len(m.groups) |-> m.groups[i].group_name]

\* ProfileGroup.profile_names
profile_names(g) == [i \in 1..Len(g.profiles) |-> g.profiles[i].profile_name]

\* [x.alias for x in group.alias_list]
alias_names(g) == [i \in 1..Len(g.alias_list) |-> g.alias_list[i].alias]

Range(f) == {f[i] : i \in DOMAIN f}

\* position of the first element of a sequence equal to v, 0 when there is none
IndexOf(seq, v) ==
    IF v \in Range(seq) THEN CHOOSE i \in DOMAIN seq : seq[i] = v /\ \A j \in 1..(i - 1) : seq[j] # v
    ELSE 0

\* position of the last element of a sequence equal to v, 0 when there is none
LastIndexOf(seq, v) ==
    IF v \in Range(seq) THEN CHOOSE i \in DOMAIN seq : seq[i] = v /\ \A j \in (i + 1)..Len(seq) : seq[j] # v
    ELSE 0

\* model.get_group(group_name=...): the group's position, 0 when it raises
get_group(m, name) == IndexOf(group_names(m), name)

\* a get_profile that hands back the first profile whatever the name
get_profile_first(g, name) == 1

\* ProfileGroup.get_profile(profile_name=...): the position, 0 when it raises
get_profile(g, name) == IndexOf(profile_names(g), name)

YesNo(b) == IF b THEN "Yes" ELSE "No"

\* a population that leaves the cursor on the first row
active_row_stays_first(keys, pointer) == 0

\* the row the cursor is moved to after population: the last row marked
\* active, row 0 when none is
ActiveRow(keys, pointer) ==
    IF LastIndexOf(keys, pointer) = 0 THEN 0 ELSE LastIndexOf(keys, pointer) - 1

\* ConfigGroup.watch_configuration: the table rebuilt from the configuration
GroupRows(m) ==
    [rows |-> [i \in 1..Len(m.groups) |->
                  Row(i, <<m.groups[i].group_name,
                           YesNo(m.groups[i].group_name = m.group_active)>>)],
     cursor |-> Coordinate(ActiveRow(group_names(m), m.group_active), 0)]

\* ConfigProfile.watch_configuration_group with a group: the table is
\* cleared and rebuilt from the group's profiles
ProfileRows(g) ==
    [rows |-> [i \in 1..Len(g.profiles) |->
                  Row(i, <<g.profiles[i].profile_name,
                           YesNo(g.profiles[i].profile_name = g.using_profile),
                           g.profiles[i].url>>)],
     cursor |-> Coordinate(ActiveRow(profile_names(g), g.using_profile), 0)]

\* ConfigIdentities.watch_configuration_group with a group
IdentityRows(g) ==
    [rows |-> [i \in 1..Len(g.address_list) |->
                  Row(i, <<g.alias_list[i].alias,
                           YesNo(g.address_list[i] = g.using_address),
                           g.alias_list[i].public_key_base64,
                           g.address_list[i]>>)],
     cursor |-> Coordinate(ActiveRow(g.address_list, g.using_address), 0)]

\* ConfigRow.config_group_change(pgroup): every section is bound to the
\* group; the profile and identity sections, whose bound object changes,
\* rebuild their tables (a reactive fires its watcher only on a new value)
config_group_change(tbl, cg, m, g) ==
    [configuration_group |-> [s \in Sections |-> g],
     table |-> [s \in Sections |->
                   CASE s = Profiles /\ cg[s] # g -> ProfileRows(m.groups[g])
                     [] s = Identities /\ cg[s] # g -> IdentityRows(m.groups[g])
                     [] OTHER -> tbl[s]]]

----------------------------------------------------------------------------
(* Validators of the inline editor, bound in each section's on_mount       *)

\* validator.Length(minimum=3, ...)
NameMin == 3
\* validator.Length(..., maximum=32) of group and profile names
NameMax == 32
\* validator.Length(..., maximum=64) of aliases
AliasMax == 64

\* textual.validation.Length: its failure, if any
Length(minimum, maximum, text) ==
    IF Len(text) < minimum \/ Len(text) > maximum THEN <<"Length">> ELSE <<>>

\* a Function validator that reports its failure whatever its function says
function_always_fails(ok, failure_description) == <<failure_description>>

\* textual.validation.Function(function, failure_description)
Function(ok, failure_description) ==
    IF ok THEN <<>> ELSE <<failure_description>>

\* textual.validation.URL
URL(text) == IF IsURL(text) THEN <<>> ELSE <<"URL">>

\* a group name validator that finds no collision
validate_group_name_passes(t, m, in_value) == TRUE

\* ConfigGroup.validate_group_name
validate_group_name(t, m, in_value) ==
    LET pre_value == GetCellAt(t, t.cursor)
    IN  IF pre_value = in_value THEN TRUE
        ELSE IF in_value \in Range(group_names(m)) THEN FALSE
        ELSE TRUE

\* a profile name validator that finds no collision
validate_profile_name_passes(t, g, in_value) == TRUE

\* ConfigProfile.validate_profile_name
validate_profile_name(t, g, in_value) ==
    LET pre_value == GetCellAt(t, t.cursor)
    IN  IF pre_value = in_value THEN TRUE
        ELSE IF in_value \in Range(profile_names(g)) THEN FALSE
        ELSE TRUE

\* ConfigIdentities.validate_alias_name
validate_alias_name(t, g, in_value) ==
    LET pre_value == GetCellAt(t, t.cursor)
    IN  IF pre_value = in_value THEN TRUE
        ELSE IF in_value \in Range(alias_names(g)) THEN FALSE
        ELSE TRUE

\* Input.validate: every validator of the column runs, in order, and the
\* failure descriptions are collected (empty: the value is valid)
Validate(s, field_name, t, m, g, text) ==
    CASE s = Groups /\ field_name = "Name" ->
           Length(NameMin, NameMax, text)
             \o Function(validate_group_name(t, m, text), "Group name not unique.")
      [] s = Profiles /\ field_name = "Name" ->
           Length(NameMin, NameMax, text)
             \o Function(validate_profile_name(t, g, text), "Profile name not unique.")
      [] s = Profiles /\ field_name = "URL" -> URL(text)
      [] s = Identities /\ field_name = "Alias" ->
           Length(NameMin, AliasMax, text)
             \o Function(validate_alias_name(t, g, text), "Alias name not unique.")
      [] OTHER -> <<>>

----------------------------------------------------------------------------
(* EditableDataTable.CellValueChange and ConfigRow._switch_active          *)

CellValueChange(s, cell_config, coordinates, old_value, new_value) ==
    [table |-> s, cell_config |-> cell_config, coordinates |-> coordinates,
     old_value |-> old_value, new_value |-> new_value]

\* _switch_active that marks the edited row without clearing the row that
\* held "Yes"
switch_active_keeps_previous(t, cell) ==
    IF cell.new_value = "Yes"
    THEN [raised |-> None,
          table |-> MoveCursorTo(UpdateCellAt(t, cell.coordinates, cell.new_value),
                                 cell.coordinates.row, 0),
          coord |-> cell.coordinates]
    ELSE [raised |-> "AttributeError", table |-> t, coord |-> None]

\* _switch_active that, promoting a row, returns the coordinate of the row
\* it has just cleared
switch_active_returns_previous(t, cell) ==
    IF row_with_value(t, 1, "Yes") # <<>> /\ cell.new_value = "Yes"
    THEN LET coord == Coordinate(row_with_value(t, 1, "Yes")[1].label - 1, 1)
             t2 == UpdateCellAt(UpdateCellAt(t, coord, cell.old_value),
                                cell.coordinates, cell.new_value)
         IN  [raised |-> None, table |-> MoveCursorTo(t2, coord.row, 0), coord |-> coord]
    ELSE [raised |-> "AttributeError", table |-> t, coord |-> None]

\* _switch_active that, finding no row marked "Yes", returns the edited
\* coordinate
switch_active_ignores_missing(t, cell) ==
    IF row_with_value(t, 1, "Yes") = <<>>
    THEN [raised |-> None, table |-> t, coord |-> cell.coordinates]
    ELSE [raised |-> "AttributeError", table |-> t, coord |-> None]

\* ConfigRow._switch_active(cell) on the table t of the event: the table
\* it leaves, the coordinate it returns and the exception it raises, if any
_switch_active(t, cell) ==
    IF row_with_value(t, 1, "Yes") = <<>>
    THEN [raised |-> "IndexError", table |-> t, coord |-> None]
    ELSE
    LET prev_y_row == row_with_value(t, 1, "Yes")[1]
        curr_n_rows == row_with_value(t, 1, "No")
    IN  IF cell.old_value = "Yes"
        THEN IF Len(curr_n_rows) > 1
             THEN LET coord == Coordinate(curr_n_rows[1].label - 1, 1)
                      t1 == UpdateCellAt(t, cell.coordinates, cell.new_value)
                      t2 == UpdateCellAt(t1, coord, cell.old_value)
                  IN  [raised |-> None,
                       table |-> MoveCursorTo(t2, coord.row, 0),
                       coord |-> coord]
             ELSE [raised |-> "AttributeError", table |-> t, coord |-> None]
        ELSE IF cell.new_value = "Yes"
        THEN LET coord == Coordinate(prev_y_row.label - 1, 1)
                 t1 == UpdateCellAt(t, coord, cell.old_value)
                 t2 == UpdateCellAt(t1, cell.coordinates, cell.new_value)
             IN  [raised |-> None,
                  table |-> MoveCursorTo(t2, cell.coordinates.row, 0),
                  coord |-> cell.coordinates]
        ELSE [raised |-> "AttributeError", table |-> t, coord |-> None]

----------------------------------------------------------------------------
(* The section controllers' handlers of CellValueChange.  Each yields the  *)
(* tables, the domain data and the bound groups it leaves, whether it      *)
(* reached configuration.save(), the coordinate _switch_active returned,   *)
(* the exception that left the handler, if any, and the order in which it  *)
(* changed the domain data ("mutate"), dispatched the group to the         *)
(* sections ("notify") and called configuration.save() ("save").           *)

\* a rename that leaves the active pointer on the old name
rename_keeps_pointer(pointer, old_value, new_value) == pointer

\* the active pointer (group_active, using_profile) after a rename: "if
\* ... == cell.old_value: ... = cell.new_value"
RenamePointer(pointer, old_value, new_value) ==
    IF pointer = old_value THEN new_value ELSE pointer

Outcome(tbl, m, cg, saved, ret, raised, steps) ==
    [table |-> tbl, model |-> m, configuration_group |-> cg,
     saved |-> saved, ret |-> ret, raised |-> raised, steps |-> steps]

\* ConfigGroup.cell_change
group_cell_change(tbl, m, cg, cell) ==
    LET t == tbl[cell.table]
    IN
    IF cell.old_value = cell.new_value THEN Outcome(tbl, m, cg, FALSE, None, None, <<>>)
    ELSE IF cell.cell_config.field_name = "Name"
    THEN LET group == get_group(m, cell.old_value)
         IN  IF group = 0 THEN Outcome(tbl, m, cg, FALSE, None, "ValueError", <<>>)
             ELSE LET m1 == [m EXCEPT !.groups[group].group_name = cell.new_value]
                      m2 == [m1 EXCEPT !.group_active =
                                           RenamePointer(@, cell.old_value, cell.new_value)]
                      t1 == UpdateCellAt(t, cell.coordinates, cell.new_value)
                  IN  Outcome([tbl EXCEPT ![cell.table] = t1], m2, cg, TRUE, None, None,
                              <<"mutate", "save">>)
    ELSE IF cell.cell_config.field_name = "Active"
    THEN LET sw == _switch_active(t, cell)
         IN  IF sw.raised # None THEN Outcome(tbl, m, cg, FALSE, None, sw.raised, <<>>)
             ELSE LET m1 == [m EXCEPT !.group_active = GetCellAt(sw.table, Left(sw.coord))]
                      tbl1 == [tbl EXCEPT ![cell.table] = sw.table]
                      active_group == get_group(m1, m1.group_active)
                  IN  IF active_group = 0
                      THEN Outcome(tbl1, m1, cg, FALSE, sw.coord, "ValueError", <<"mutate">>)
                      ELSE LET ch == config_group_change(tbl1, cg, m1, active_group)
                           IN  Outcome(ch.table, m1, ch.configuration_group,
                                       TRUE, sw.coord, None,
                                       <<"mutate", "notify", "save">>)
    ELSE Outcome(tbl, m, cg, TRUE, None, None, <<"save">>)

\* ConfigProfile.cell_change
profile_cell_change(tbl, m, cg, cell) ==
    LET t == tbl[cell.table]
        g == cg[Profiles]
    IN
    IF cell.old_value = cell.new_value THEN Outcome(tbl, m, cg, FALSE, None, None, <<>>)
    ELSE IF cell.cell_config.field_name = "Name"
    THEN LET profile == get_profile(m.groups[g], cell.old_value)
         IN  IF profile = 0 THEN Outcome(tbl, m, cg, FALSE, None, "ValueError", <<>>)
             ELSE LET m1 == [m EXCEPT !.groups[g].profiles[profile].profile_name = cell.new_value]
                      m2 == [m1 EXCEPT !.groups[g].using_profile =
                                           RenamePointer(@, cell.old_value, cell.new_value)]
                      t1 == UpdateCellAt(t, cell.coordinates, cell.new_value)
                  IN  Outcome([tbl EXCEPT ![cell.table] = t1], m2, cg, TRUE, None, None,
                              <<"mutate", "save">>)
    ELSE IF cell.cell_config.field_name = "Active"
    THEN LET sw == _switch_active(t, cell)
         IN  IF sw.raised # None THEN Outcome(tbl, m, cg, FALSE, None, sw.raised, <<>>)
             ELSE Outcome([tbl EXCEPT ![cell.table] = sw.table],
                          [m EXCEPT !.groups[g].using_profile =
                                        GetCellAt(sw.table, Left(sw.coord))],
                          cg, TRUE, sw.coord, None, <<"mutate", "save">>)
    ELSE IF cell.cell_config.field_name = "URL"
    THEN LET profile_name == GetCellAt(t, Left(Left(cell.coordinates)))
             profile == get_profile(m.groups[g], profile_name)
         IN  IF profile = 0 THEN Outcome(tbl, m, cg, FALSE, None, "ValueError", <<>>)
             ELSE Outcome([tbl EXCEPT ![cell.table] =
                                  UpdateCellAt(t, cell.coordinates, cell.new_value)],
                          [m EXCEPT !.groups[g].profiles[profile].url = cell.new_value],
                          cg, TRUE, None, None, <<"mutate", "save">>)
    ELSE Outcome(tbl, m, cg, TRUE, None, None, <<"save">>)

\* ConfigIdentities.cell_change
identity_cell_change(tbl, m, cg, cell) ==
    LET t == tbl[cell.table]
        g == cg[Identities]
    IN
    IF cell.old_value = cell.new_value THEN Outcome(tbl, m, cg, FALSE, None, None, <<>>)
    ELSE IF cell.cell_config.field_name = "Alias"
    THEN LET renamed == [i \in 1..Len(m.groups[g].alias_list) |->
                            IF m.groups[g].alias_list[i].alias = cell.old_value
                            THEN [m.groups[g].alias_list[i] EXCEPT !.alias = cell.new_value]
                            ELSE m.groups[g].alias_list[i]]
         IN  Outcome([tbl EXCEPT ![cell.table] =
                             UpdateCellAt(t, cell.coordinates, cell.new_value)],
                     [m EXCEPT !.groups[g].alias_list = renamed],
                     cg, TRUE, None, None, <<"mutate", "save">>)
    ELSE IF cell.cell_config.field_name = "Active"
    THEN LET sw == _switch_active(t, cell)
         IN  IF sw.raised # None THEN Outcome(tbl, m, cg, FALSE, None, sw.raised, <<>>)
             ELSE Outcome([tbl EXCEPT ![cell.table] = sw.table],
                          [m EXCEPT !.groups[g].using_address =
                                        GetCellAt(sw.table, Right(Right(sw.coord)))],
                          cg, TRUE, sw.coord, None, <<"mutate", "save">>)
    ELSE Outcome(tbl, m, cg, TRUE, None, None, <<"save">>)

\* the handler that receives a message posted by a section's table: the
\* message bubbles from the table to the section that contains it
cell_change(tbl, m, cg, cell) ==
    CASE cell.table = Groups -> group_cell_change(tbl, m, cg, cell)
      [] cell.table = Profiles -> profile_cell_change(tbl, m, cg, cell)
      [] cell.table = Identities -> identity_cell_change(tbl, m, cg, cell)

----------------------------------------------------------------------------
(* State *)

\* no configuration has been selected yet
NoModel == [group_active |-> "", groups |-> <<>>]

\* no modal screen is open
NoScreen == [kind |-> "none"]

\* EditWidgetScreen(value, region, validators) opened by edit_cell
EditWidgetScreen(s, coordinate, cfg, value) ==
    [kind |-> "inline", table |-> s, coordinate |-> coordinate, cfg |-> cfg,
     value |-> value, failures |-> <<>>]

\* cfg.dialog() opened by edit_dialog, which keeps old_value meanwhile
SingleChoiceDialog(s, coordinate, cfg, old_value) ==
    [kind |-> "choice", table |-> s, coordinate |-> coordinate, cfg |-> cfg,
     value |-> old_value, failures |-> <<>>]

\* what the history keeps of a state
Snapshot == [table |-> table, model |-> model, saves |-> saves]

\* the history: the last step (op), the section and coordinate of the last
\* edit request (at), the state right after that request was made (req) and
\* the state the last step started from (pre), the text or choice the
\* editor was last given (result), the message handled last (event), what
\* _switch_active returned to the handler (ret), what the handler raised
\* before it reached configuration.save() (raised), the order of its steps
\* (steps) and what configuration.save() raised (save_raised)
History(op, at, req, pre, result, event, ret, raised, steps, save_raised) ==
    [op |-> op, at |-> at, req |-> req, pre |-> pre, result |-> result,
     event |-> event, ret |-> ret, raised |-> raised, steps |-> steps,
     save_raised |-> save_raised]

\* the application accepts input: nothing raised, no modal open, no
\* message waiting for its handler
Idle == ~crashed /\ screen.kind = "none" /\ queue = <<>>

Init ==
    /\ disk = Docs
    /\ path = 0
    /\ model = NoModel
    /\ configuration = [s \in Sections |-> 0]
    /\ configuration_group = [s \in Sections |-> 0]
    /\ table = [s \in Sections |-> Clear]
    /\ screen = NoScreen
    /\ queue = <<>>
    /\ saves = 0
    /\ crashed = FALSE
    /\ edits = 0
    /\ hist = History("mount", None, None, None, None, None, None, None, <<>>, None)

----------------------------------------------------------------------------
(* Actions *)

NoHistory(op) == History(op, None, None, None, None, None, None, None, <<>>, None)

\* PyCfgScreen.select_configuration / save_to end in
\* ConfigRow.config_change(path): the document is read and handed to every
\* section; ConfigGroup.watch_configuration rebuilds the group table and
\* dispatches the document's active group
ConfigChange(d) ==
    /\ Idle
    /\ LET pysuicfg == disk[d]
           active_group == get_group(pysuicfg, pysuicfg.group_active)
           groups_only == [table EXCEPT ![Groups] = GroupRows(pysuicfg)]
       IN  /\ model' = pysuicfg
           /\ path' = d
           /\ IF active_group = 0
              THEN /\ configuration' = [configuration EXCEPT ![Groups] = d]
                   /\ table' = groups_only
                   /\ crashed' = TRUE
                   /\ UNCHANGED configuration_group
              ELSE LET ch == config_group_change(groups_only, [s \in Sections |-> 0],
                                                 pysuicfg, active_group)
                   IN  /\ configuration' = [s \in Sections |-> d]
                       /\ table' = ch.table
                       /\ configuration_group' = ch.configuration_group
                       /\ UNCHANGED crashed
    /\ hist' = NoHistory("config_change")
    /\ UNCHANGED <<disk, screen, queue, saves, edits>>

\* ConfigGroup.group_cell_select: the user selects the cell at coordinate c
\* of the group table, which takes the cursor there
GroupCellSelect(c) ==
    /\ Idle
    /\ c \in Coordinates(table[Groups])
    /\ LET t == MoveCursorTo(table[Groups], c.row, c.column)
           tbl == [table EXCEPT ![Groups] = t]
           selected == t.cursor
           group == get_group(model, GetCellAt(t, selected))
       IN  IF selected.column = 0 /\ selected.row >= 0
           THEN IF group = 0
                THEN /\ crashed' = TRUE
                     /\ table' = tbl
                     /\ UNCHANGED configuration_group
                ELSE LET ch == config_group_change(tbl, configuration_group, model, group)
                     IN  /\ table' = ch.table
                         /\ configuration_group' = ch.configuration_group
                         /\ UNCHANGED crashed
           ELSE /\ table' = tbl
                /\ UNCHANGED <<configuration_group, crashed>>
    /\ hist' = NoHistory("group_cell_select")
    /\ UNCHANGED <<disk, path, model, configuration, screen, queue, saves, edits>>

\* EditableDataTable.action_edit on the table of section s, up to the
\* point where edit_cell or edit_dialog waits for its modal screen.  The
\* user has taken the cursor to c (on an empty table it is left where it is).
ActionEdit(s, c) ==
    /\ Idle
    /\ edits < MaxEdits
    /\ c \in Coordinates(table[s]) \cup {table[s].cursor}
    /\ LET t == MoveCursorTo(table[s], c.row, c.column)
           coords == t.cursor
           edit_cfg == edit_config(s)[coords.column + 1]
       IN  /\ table' = [table EXCEPT ![s] = t]
           /\ IF edit_cfg.editable /\ (edit_cfg.inline \/ edit_cfg.dialog)
              THEN IF ~IsValidCoordinate(t, coords)
                   THEN /\ crashed' = TRUE
                        /\ UNCHANGED screen
                   ELSE /\ screen' = IF edit_cfg.inline
                                     THEN EditWidgetScreen(s, coords, edit_cfg,
                                                           GetCellAt(t, coords))
                                     ELSE SingleChoiceDialog(s, coords, edit_cfg,
                                                             GetCellAt(t, coords))
                        /\ UNCHANGED crashed
              ELSE UNCHANGED <<screen, crashed>>
           /\ hist' = History("action_edit", [table |-> s, coordinate |-> coords],
                              [table |-> [table EXCEPT ![s] = t], model |-> model,
                               saves |-> saves],
                              Snapshot, None, None, None, None, <<>>, None)
    /\ edits' = edits + 1
    /\ UNCHANGED <<disk, path, model, configuration, configuration_group, queue, saves>>

\* an edit key that reaches the grid under an open modal screen, which
\* pushes a second editor over the first
edit_key_reaches_grid ==
    /\ ~crashed
    /\ screen.kind # "none"
    /\ screen' = LET s == screen.table
                     coords == table[s].cursor
                     edit_cfg == edit_config(s)[coords.column + 1]
                 IN  [kind |-> IF edit_cfg.inline THEN "inline" ELSE "choice",
                      table |-> s, coordinate |-> coords, cfg |-> edit_cfg,
                      value |-> "", failures |-> <<>>]
    /\ hist' = [hist EXCEPT !.op = "key_to_modal"]
    /\ UNCHANGED <<disk, path, model, configuration, configuration_group, table,
                   queue, saves, crashed, edits>>

\* the user presses the edit key ("e", BINDINGS of EditableDataTable) while
\* an editor is open.  The editor was pushed with push_screen_wait, so it
\* is the active screen: the key goes to it and the binding of the table
\* underneath does not run (in the Input the key is text, entered with the
\* submission)
EditKeyWhileModal ==
    /\ ~crashed
    /\ screen.kind # "none"
    /\ hist' = [hist EXCEPT !.op = "key_to_modal"]
    /\ UNCHANGED <<disk, path, model, configuration, configuration_group, table,
                   screen, queue, saves, crashed, edits>>

\* a ctrl+f that reaches the screen under an open editor: a document is
\* picked and every section is bound to it while the edit is pending
select_key_reaches_screen ==
    /\ ~crashed
    /\ screen.kind \in {"inline", "choice"}
    /\ \E d \in DOMAIN Docs :
          LET pysuicfg == disk[d]
              groups_only == [table EXCEPT ![Groups] = GroupRows(pysuicfg)]
              ch == config_group_change(groups_only, [s \in Sections |-> 0], pysuicfg,
                                        get_group(pysuicfg, pysuicfg.group_active))
          IN  /\ model' = pysuicfg
              /\ path' = d
              /\ configuration' = [s \in Sections |-> d]
              /\ table' = ch.table
              /\ configuration_group' = ch.configuration_group
    /\ hist' = [hist EXCEPT !.op = "select_to_modal"]
    /\ UNCHANGED <<disk, screen, queue, saves, crashed, edits>>

\* the user presses ctrl+f or ctrl+s (BINDINGS of PyCfgScreen) while an
\* editor is open.  The bindings of a screen under a modal screen are not
\* looked up: no picker opens and no document is read, so the sections
\* stay bound as they are while the edit is pending
SelectKeyWhileModal ==
    /\ ~crashed
    /\ screen.kind \in {"inline", "choice"}
    /\ hist' = [hist EXCEPT !.op = "select_to_modal"]
    /\ UNCHANGED <<disk, path, model, configuration, configuration_group, table,
                   screen, queue, saves, crashed, edits>>

\* NewProfile(name, url, active) of modals/pyconfig_add.py
NewProfile(name, url, active) == [name |-> name, url |-> url, active |-> active]

\* what the user may leave in the name and URL inputs of the AddProfile
\* dialog: a new name, the name of an existing profile, nothing
AddNames == {"zeta", "beta", ""}
AddURLs == {"http://a.io", ""}

\* the AddProfile screen pushed by ConfigProfile.add_profile
AddProfileScreen ==
    [kind |-> "add_profile", table |-> Profiles, coordinate |-> table[Profiles].cursor,
     cfg |-> edit_config(Profiles)[1], value |-> "", failures |-> <<>>]

\* ConfigGroup.on_add_group: the worker add_group evaluates AddGroup()
\* without the group_names its __init__ requires, which raises TypeError in
\* the worker before any screen is pushed
AddGroupPressed ==
    /\ Idle
    /\ edits < MaxEdits
    /\ edits' = edits + 1
    /\ crashed' = TRUE
    /\ hist' = [NoHistory("add_group") EXCEPT !.raised = "TypeError"]
    /\ UNCHANGED <<disk, path, model, configuration, configuration_group, table,
                   screen, queue, saves>>

\* ConfigProfile.on_add_profile: the worker add_profile pushes AddProfile()
\* and waits for it
AddProfilePressed ==
    /\ Idle
    /\ edits < MaxEdits
    /\ edits' = edits + 1
    /\ screen' = AddProfileScreen
    /\ hist' = NoHistory("add_profile")
    /\ UNCHANGED <<disk, path, model, configuration, configuration_group, table,
                   queue, saves, crashed>>

\* AddProfile.on_ok with the inputs as the user left them: without a URL
\* the dialog stays open, otherwise it is dismissed with the NewProfile;
\* add_profile then does nothing with it ("if new_group is not None: pass")
AddProfileOk(name, url, active) ==
    /\ ~crashed
    /\ screen.kind = "add_profile"
    /\ IF url = ""
       THEN /\ hist' = NoHistory("add_rejected")
            /\ UNCHANGED screen
       ELSE /\ screen' = NoScreen
            /\ hist' = [NoHistory("add_ok") EXCEPT !.result = NewProfile(name, url, active)]
    /\ UNCHANGED <<disk, path, model, configuration, configuration_group, table,
                   queue, saves, crashed, edits>>

\* AddProfile.on_cancel, or escape: the dialog is dismissed with None
AddProfileCancel ==
    /\ ~crashed
    /\ screen.kind = "add_profile"
    /\ screen' = NoScreen
    /\ hist' = NoHistory("add_cancel")
    /\ UNCHANGED <<disk, path, model, configuration, configuration_group, table,
                   queue, saves, crashed, edits>>

\* a grid that posts nothing when the editor's value is the cell's value
dismissed_drops_unchanged(new_value) ==
    /\ screen' = NoScreen
    /\ queue' = IF new_value # None /\ new_value # screen.value
                THEN Append(queue, CellValueChange(screen.table, screen.cfg, screen.coordinate,
                                                   screen.value, new_value))
                ELSE queue

\* a grid that posts a message whatever the editor was dismissed with
dismissed_posts_always(new_value) ==
    /\ screen' = NoScreen
    /\ queue' = Append(queue, CellValueChange(screen.table, screen.cfg, screen.coordinate,
                                              screen.value, new_value))

\* a grid that posts the message of an accepted edit twice
dismissed_posts_twice(new_value) ==
    /\ screen' = NoScreen
    /\ queue' = IF new_value # None
                THEN queue \o << CellValueChange(screen.table, screen.cfg, screen.coordinate,
                                                 screen.value, new_value),
                                 CellValueChange(screen.table, screen.cfg, screen.coordinate,
                                                 screen.value, new_value) >>
                ELSE queue

\* what edit_cell and edit_dialog do when the modal screen is dismissed
\* with new_value
Dismissed(new_value) ==
    /\ screen' = NoScreen
    /\ queue' = IF new_value # None
                THEN Append(queue, CellValueChange(screen.table, screen.cfg, screen.coordinate,
                                                   screen.value, new_value))
                ELSE queue

\* an editor that dismisses with the text whatever the validators say
input_submitted_ignores_validation(text) ==
    /\ ~crashed
    /\ screen.kind = "inline"
    /\ Dismissed(text)
    /\ hist' = [hist EXCEPT !.op = "submitted", !.pre = Snapshot, !.result = text]
    /\ UNCHANGED <<disk, path, model, configuration, configuration_group, table,
                   saves, crashed, edits>>

\* EditWidgetScreen.on_input_submitted with the text of the input
InputSubmitted(text) ==
    /\ ~crashed
    /\ screen.kind = "inline"
    /\ LET s == screen.table
           g == configuration_group[s]
           failure_descriptions ==
               Validate(s, screen.cfg.field_name, table[s], model,
                        IF g = 0 THEN ProfileGroup("", "", <<>>, "", <<>>, <<>>)
                        ELSE model.groups[g], text)
       IN  IF failure_descriptions # <<>>
           THEN /\ screen' = [screen EXCEPT !.failures = failure_descriptions]
                /\ hist' = [hist EXCEPT !.op = "rejected", !.pre = Snapshot, !.result = text]
                /\ UNCHANGED queue
           ELSE /\ Dismissed(text)
                /\ hist' = [hist EXCEPT !.op = "submitted", !.pre = Snapshot, !.result = text]
    /\ UNCHANGED <<disk, path, model, configuration, configuration_group, table,
                   saves, crashed, edits>>

\* the user submits the input as it was filled in (the cell's value) or
\* after typing something else
Submit ==
    \E text \in InputTexts \cup (IF screen.kind = "inline" THEN {screen.value} ELSE {}) :
        InputSubmitted(text)

\* a cancellation after which the grid writes the live document itself
escape_saves ==
    /\ ~crashed
    /\ screen.kind = "inline"
    /\ Dismissed(None)
    /\ saves' = saves + 1
    /\ disk' = [disk EXCEPT ![path] = model]
    /\ hist' = [hist EXCEPT !.op = "cancelled", !.pre = Snapshot, !.result = None]
    /\ UNCHANGED <<path, model, configuration, configuration_group, table,
                   crashed, edits>>

\* EditWidgetScreen._on_key with escape
Escape ==
    /\ ~crashed
    /\ screen.kind = "inline"
    /\ Dismissed(None)
    /\ hist' = [hist EXCEPT !.op = "cancelled", !.pre = Snapshot, !.result = None]
    /\ UNCHANGED <<disk, path, model, configuration, configuration_group, table,
                   saves, crashed, edits>>

\* the choice dialog is dismissed with one of its options, or with None
ChoiceDismissed(choice) ==
    /\ ~crashed
    /\ screen.kind = "choice"
    /\ Dismissed(choice)
    /\ hist' = [hist EXCEPT !.op = IF choice = None THEN "cancelled" ELSE "submitted",
                            !.pre = Snapshot, !.result = choice]
    /\ UNCHANGED <<disk, path, model, configuration, configuration_group, table,
                   saves, crashed, edits>>

\* what PysuiConfiguration.save() can do: write the document (None) or
\* raise, the file being not writable
SaveResults == {None, "OSError"}

\* the section controller handles the first message of the queue; the
\* handler ends with configuration.save(), which writes the live document
\* to its file or raises
CellChange(save_raised) ==
    /\ ~crashed
    /\ queue # <<>>
    /\ LET cell == Head(queue)
           out == cell_change(table, model, configuration_group, cell)
       IN  /\ out.saved \/ save_raised = None
           /\ queue' = Tail(queue)
           /\ table' = out.table
           /\ model' = out.model
           /\ configuration_group' = out.configuration_group
           /\ saves' = IF out.saved THEN saves + 1 ELSE saves
           /\ disk' = IF out.saved /\ save_raised = None
                      THEN [disk EXCEPT ![path] = out.model] ELSE disk
           /\ crashed' = (out.raised # None \/ save_raised # None)
           /\ hist' = [hist EXCEPT !.op = "cell_change", !.pre = Snapshot, !.event = cell,
                                   !.ret = out.ret, !.raised = out.raised,
                                   !.steps = out.steps, !.save_raised = save_raised]
    /\ UNCHANGED <<path, configuration, screen, edits>>

\* the cells the user selects in the group table: any cell of the name
\* column, and one cell of the Active column (a selection there only takes
\* the cursor to the cell, as action_edit does for every cell)
GroupSelections == [row : 0..2, column : {0}] \cup {Coordinate(0, 1)}

Next ==
    \/ \E d \in DOMAIN Docs : ConfigChange(d)
    \/ \E c \in GroupSelections : GroupCellSelect(c)
    \/ \E s \in Sections, c \in [row : 0..2, column : 0..3] : ActionEdit(s, c)
    \/ EditKeyWhileModal
    \/ SelectKeyWhileModal
    \/ AddGroupPressed
    \/ AddProfilePressed
    \/ \E name \in AddNames, url \in AddURLs, active \in BOOLEAN :
          AddProfileOk(name, url, active)
    \/ AddProfileCancel
    \/ Submit
    \/ Escape
    \/ \E choice \in ChoiceResults : ChoiceDismissed(choice)
    \/ \E save_raised \in SaveResults : CellChange(save_raised)

Spec == Init /\ [][Next]_vars

----------------------------------------------------------------------------
(* The inline editor on a value of any type.  EditWidgetScreen keeps      *)
(* type(value) and dismisses with value_type(event.value), or with None    *)
(* when that raises ValueError; edit_cell posts str() of the old and the   *)
(* new value.  Here a text is a sequence of characters and a value carries *)
(* its type.                                                               *)

Chars == {"0", "2", "4", "a", "b", "c", "-"}
Digits == {"0", "2", "4"}

Texts == UNION {[1..n -> Chars] : n \in 0..MaxText}

\* a value: its type, and the number (of an int) or the characters (of a
\* str or a rich Text) it holds
IntValue(n) == [type |-> "int", n |-> n, text |-> <<>>]
StrValue(text) == [type |-> "str", n |-> 0, text |-> text]
TextValue(text) == [type |-> "Text", n |-> 0, text |-> text]
NoneValue == [type |-> "NoneType", n |-> 0, text |-> <<>>]

DigitValue(c) == CASE c = "0" -> 0 [] c = "2" -> 2 [] c = "4" -> 4

DigitChar(d) == CHOOSE c \in Digits : DigitValue(c) = d

\* the number a sequence of decimal digits denotes
RECURSIVE Decimal(_)
Decimal(digits) ==
    IF digits = <<>> THEN 0
    ELSE 10 * Decimal(SubSeq(digits, 1, Len(digits) - 1)) + DigitValue(digits[Len(digits)])

\* the decimal digits of a natural number (those of the model: 0, 2, 4)
RECURSIVE Numeral(_)
Numeral(n) ==
    IF n < 10 THEN <<DigitChar(n)>>
    ELSE Append(Numeral(n \div 10), DigitChar(n % 10))

\* int(text) on texts over Chars: a numeral is an optional "-" and at least
\* one decimal digit (leading zeros allowed); anything else raises ValueError
int(text) ==
    LET digits == IF text # <<>> /\ text[1] = "-" THEN Tail(text) ELSE text
        negative == text # <<>> /\ text[1] = "-"
    IN  IF digits # <<>> /\ \A i \in 1..Len(digits) : digits[i] \in Digits
        THEN [raised |-> None,
              value |-> IntValue(IF negative THEN 0 - Decimal(digits) ELSE Decimal(digits))]
        ELSE [raised |-> "ValueError", value |-> NoneValue]

\* a conversion that hands the text back whatever the type of the value
value_type_keeps_text(type, text) == [raised |-> None, value |-> StrValue(text)]

\* self.value_type(event.value) for value_type = type(value)
value_type(type, text) ==
    CASE type = "int" -> int(text)
      [] type = "str" -> [raised |-> None, value |-> StrValue(text)]
      [] type = "Text" -> [raised |-> None, value |-> TextValue(text)]

\* str(value)
str(value) ==
    CASE value.type = "int" ->
           IF value.n < 0 THEN <<"-">> \o Numeral(0 - value.n) ELSE Numeral(value.n)
      [] OTHER -> value.text

\* the values of the cells the editor is opened on
TypedValues ==
    {IntValue(4), IntValue(0 - 20), StrValue(<<"a", "b">>), TextValue(<<"a", "b", "c">>)}

\* the editor open on the typed value of a cell
ConvInit ==
    /\ disk = Docs
    /\ path = 0
    /\ model = NoModel
    /\ configuration = [s \in Sections |-> 0]
    /\ configuration_group = [s \in Sections |-> 0]
    /\ table = [s \in Sections |-> Clear]
    /\ \E value \in TypedValues :
          screen = EditWidgetScreen(Groups, Coordinate(0, 0), edit_config(Groups)[1], value)
    /\ queue = <<>>
    /\ saves = 0
    /\ crashed = FALSE
    /\ edits = 1
    /\ hist = [op |-> "edit_cell", value |-> screen.value, text |-> <<>>,
               is_valid |-> TRUE, result |-> NoneValue]

\* EditWidgetScreen.on_input_submitted with the text of the input and the
\* result of its validation, then edit_cell once the screen is dismissed
TypedSubmit(text, is_valid) ==
    /\ screen.kind = "inline"
    /\ IF ~is_valid
       THEN /\ screen' = [screen EXCEPT !.failures = <<"invalid">>]
            /\ hist' = [hist EXCEPT !.op = "rejected", !.is_valid = FALSE]
            /\ UNCHANGED queue
       ELSE LET conv == value_type(screen.value.type, text)
                new_value == IF conv.raised = "ValueError" THEN NoneValue ELSE conv.value
            IN  /\ screen' = NoScreen
                /\ queue' = IF new_value.type # "NoneType"
                            THEN Append(queue,
                                        CellValueChange(screen.table, screen.cfg,
                                                        screen.coordinate,
                                                        str(screen.value), str(new_value)))
                            ELSE queue
                /\ hist' = [hist EXCEPT !.op = "submitted", !.text = text,
                                        !.is_valid = TRUE, !.result = new_value]
    /\ UNCHANGED <<disk, path, model, configuration, configuration_group, table,
                   saves, crashed, edits>>

ConvNext == \E text \in Texts, is_valid \in BOOLEAN : TypedSubmit(text, is_valid)

ConvSpec == ConvInit /\ [][ConvNext]_vars

----------------------------------------------------------------------------
(* row_with_value on any grid.  The grids are those a profile section can  *)
(* show: up to MaxRows rows labelled by position, distinct names, at most  *)
(* one row marked "Yes", any URLs.                                         *)

GridNames == {"alpha", "beta", "gamma", "delta"}
GridURLs == {"http://a.io", "http://b.io"}

\* the grids of n rows
GridsOf(n) ==
    { [rows |-> [i \in 1..n |-> Row(i, <<names[i], YesNo(i = active), urls[i]>>)],
       cursor |-> Coordinate(0, 0)] :
          names \in {f \in [1..n -> GridNames] : \A i, j \in 1..n : i # j => f[i] # f[j]},
          active \in 0..n,
          urls \in [1..n -> GridURLs] }

Grids == UNION {GridsOf(n) : n \in 0..MaxRows}

\* the values row_with_value is asked for
GridValues == {"Yes", "No", "alpha", "http://a.io", "zeta"}

\* the profile grid holds any of the grids
RowInit ==
    /\ disk = Docs
    /\ path = 0
    /\ model = NoModel
    /\ configuration = [s \in Sections |-> 0]
    /\ configuration_group = [s \in Sections |-> 0]
    /\ \E t \in Grids : table = [s \in Sections |-> IF s = Profiles THEN t ELSE Clear]
    /\ screen = NoScreen
    /\ queue = <<>>
    /\ saves = 0
    /\ crashed = FALSE
    /\ edits = 0
    /\ hist = [op |-> "grid", grid |-> table[Profiles], row_cell |-> 0, value |-> "",
               found |-> <<>>]

\* table.row_with_value(row_cell, value) on the profile grid
RowWithValue(row_cell, value) ==
    /\ hist' = [op |-> "row_with_value", grid |-> table[Profiles], row_cell |-> row_cell,
                value |-> value,
                found |-> row_with_value(table[Profiles], row_cell, value)]
    /\ UNCHANGED <<disk, path, model, configuration, configuration_group, table,
                   screen, queue, saves, crashed, edits>>

RowNext == \E row_cell \in 0..2, value \in GridValues : RowWithValue(row_cell, value)

RowSpec == RowInit /\ [][RowNext]_vars

----------------------------------------------------------------------------
(* The AddGroup dialog of modals/pyconfig_add.py, on its own *)

\* the characters the user types into the group name input: a letter, a
\* character of the pattern that is no letter, a character outside it
NameKeys == {"a", "-", "0"}

\* the letters, and the characters the pattern ^[a-zA-Z_-]{3,32}$ admits
Letters == {"a"}
PatternChars == Letters \cup {"_", "-"}

\* the values the input can hold (max_length=32 is beyond the bound)
NameTexts == UNION {[1..n -> NameKeys] : n \in 0..MaxText}

\* the group_names the dialog is constructed with
GroupNameLists ==
    { <<>>,
      << <<"a", "a", "a">> >>,
      << <<"a", "a", "a">>, <<"a", "-", "a">>, <<"a", "0">> >> }

\* NewGroup(name, active)
NewGroup(name, active) == [name |-> name, active |-> active]

\* validator.Regex("^[a-zA-Z_-]{3,32}$").validate(value): its failures
Regex(value) ==
    IF Len(value) >= 3 /\ Len(value) <= 32 /\ \A i \in 1..Len(value) : value[i] \in PatternChars
    THEN <<>> ELSE <<"Regex">>

\* AddGroup._validate_name(in_value): the value of is_valid it leaves and
\* returns
_validate_name(names, in_value) == in_value \notin Range(names)

\* AddGroup.__init__(group_names) and compose: the dialog as mounted
AddGroup(names) ==
    [kind |-> "add_group", names |-> names, is_valid |-> FALSE, value |-> <<>>,
     checkbox |-> FALSE, display |-> FALSE, failures |-> <<>>, focused |-> "group_name"]

AddGroupInit ==
    /\ disk = Docs
    /\ path = 0
    /\ model = NoModel
    /\ configuration = [s \in Sections |-> 0]
    /\ configuration_group = [s \in Sections |-> 0]
    /\ table = [s \in Sections |-> Clear]
    /\ \E names \in GroupNameLists : screen = AddGroup(names)
    /\ queue = <<>>
    /\ saves = 0
    /\ crashed = FALSE
    /\ edits = 0
    /\ hist = [op |-> "mount", dismissed |-> FALSE, result |-> None]

\* the user changes the text of the input to value: Input validates on
\* change with every validator (Regex, then Function(_validate_name), which
\* sets is_valid and hides the Pretty), then on_input_changed shows the
\* failure descriptions when the result is not valid
on_input_changed(value) ==
    /\ ~hist.dismissed
    /\ value # screen.value
    /\ LET is_valid == _validate_name(screen.names, value)
           failure_descriptions ==
               Regex(value) \o Function(is_valid, "Group name exists.")
       IN  screen' = [screen EXCEPT
                         !.value = value,
                         !.is_valid = is_valid,
                         !.display = (failure_descriptions # <<>>),
                         !.failures = IF failure_descriptions # <<>>
                                      THEN failure_descriptions ELSE @,
                         !.focused = "group_name"]
    /\ hist' = [op |-> "on_input_changed", dismissed |-> FALSE, result |-> None]
    /\ UNCHANGED <<disk, path, model, configuration, configuration_group, table,
                   queue, saves, crashed, edits>>

\* the user toggles the "Make Active?" checkbox
CheckboxToggled ==
    /\ ~hist.dismissed
    /\ screen' = [screen EXCEPT !.checkbox = ~@, !.focused = "checkbox"]
    /\ hist' = [op |-> "checkbox", dismissed |-> FALSE, result |-> None]
    /\ UNCHANGED <<disk, path, model, configuration, configuration_group, table,
                   queue, saves, crashed, edits>>

\* AddGroup.on_ok: with an empty input or is_valid False the input is
\* focused, otherwise the dialog is dismissed with the NewGroup
on_ok ==
    /\ ~hist.dismissed
    /\ IF screen.value = <<>> \/ screen.is_valid = FALSE
       THEN /\ screen' = [screen EXCEPT !.focused = "group_name"]
            /\ hist' = [op |-> "on_ok", dismissed |-> FALSE, result |-> None]
       ELSE /\ screen' = [screen EXCEPT !.focused = "choice-ok"]
            /\ hist' = [op |-> "on_ok", dismissed |-> TRUE,
                        result |-> NewGroup(screen.value, screen.checkbox)]
    /\ UNCHANGED <<disk, path, model, configuration, configuration_group, table,
                   queue, saves, crashed, edits>>

\* AddGroup.on_cancel: the dialog is dismissed with None
on_cancel ==
    /\ ~hist.dismissed
    /\ screen' = [screen EXCEPT !.focused = "choice-cancel"]
    /\ hist' = [op |-> "on_cancel", dismissed |-> TRUE, result |-> None]
    /\ UNCHANGED <<disk, path, model, configuration, configuration_group, table,
                   queue, saves, crashed, edits>>

\* AddGroup._on_key with the escape key: the dialog is dismissed with None
_on_key ==
    /\ ~hist.dismissed
    /\ hist' = [op |-> "_on_key", dismissed |-> TRUE, result |-> None]
    /\ UNCHANGED <<disk, path, model, configuration, configuration_group, table,
                   screen, queue, saves, crashed, edits>>

AddGroupNext ==
    \/ \E value \in NameTexts : on_input_changed(value)
    \/ CheckboxToggled
    \/ on_ok
    \/ on_cancel
    \/ _on_key

AddGroupSpec == AddGroupInit /\ [][AddGroupNext]_vars

----------------------------------------------------------------------------
(* Properties *)

\* the positions (1-based) of the rows of a table marked "Yes"
ActiveSet(t) == {i \in 1..Len(t.rows) : t.rows[i].cells[2] = "Yes"}

\* the last step was a section controller handling a message of the given
\* column whose new value differs from the old one
Handled(field_name) ==
    /\ hist.op = "cell_change"
    /\ hist.event.cell_config.field_name = field_name
    /\ hist.event.old_value # hist.event.new_value

\* the table of the message handled last, before and after the handler
TableBefore == hist.pre.table[hist.event.table]
TableAfter == table[hist.event.table]

\* the (1-based) position of the row the message handled last is about
EditedRow == hist.event.coordinates.row + 1

\* C1: in every reachable state, at most one row of each section's table
\* has "Yes" in its Active column.
C1_AtMostOneActive ==
    \A s \in Sections : Cardinality(ActiveSet(table[s])) <= 1

\* C1 witness: an Active edit has been handled on a table of several rows,
\* moving the mark to another row.
C1_Witness ==
    /\ Handled("Active")
    /\ hist.raised = None
    /\ Len(TableAfter.rows) >= 2
    /\ Cardinality(ActiveSet(TableAfter)) = 1
    /\ ActiveSet(TableAfter) # ActiveSet(TableBefore)

\* C2: after every accepted Active edit handled on a non-empty table,
\* exactly one row of that table has "Yes" in its Active column.
C2_ExactlyOneAfterEdit ==
    (Handled("Active") /\ Len(TableAfter.rows) > 0)
        => Cardinality(ActiveSet(TableAfter)) = 1

\* C3: when the only active row r of a table of at least two rows is
\* edited to "No", the handler leaves r at "No" and exactly one other row
\* at "Yes".
C3_DemotePromotesOther ==
    ( /\ Handled("Active")
      /\ hist.event.old_value = "Yes"
      /\ hist.event.new_value = "No"
      /\ Len(TableBefore.rows) >= 2
      /\ ActiveSet(TableBefore) = {EditedRow} )
        => /\ EditedRow \notin ActiveSet(TableAfter)
           /\ Cardinality(ActiveSet(TableAfter)) = 1

\* the last step handled the promotion of a row while another row held "Yes"
Promoted ==
    /\ Handled("Active")
    /\ hist.event.old_value = "No"
    /\ hist.event.new_value = "Yes"
    /\ ActiveSet(TableBefore) \ {EditedRow} # {}

\* C4: when a row holding "No" is edited to "Yes" while another row p holds
\* "Yes", the handler sets p to "No" and the edited row to "Yes", changes no
\* other cell, and the coordinator returns the edited row's coordinate.
C4_PromoteSwitches ==
    Promoted =>
        /\ hist.raised = None
        /\ hist.ret = hist.event.coordinates
        /\ ActiveSet(TableAfter) = {EditedRow}
        /\ Len(TableAfter.rows) = Len(TableBefore.rows)
        /\ \A i \in 1..Len(TableBefore.rows) :
              /\ TableAfter.rows[i].label = TableBefore.rows[i].label
              /\ \A c \in DOMAIN TableBefore.rows[i].cells :
                    (c # 2 \/ i \notin (ActiveSet(TableBefore) \cup {EditedRow}))
                        => TableAfter.rows[i].cells[c] = TableBefore.rows[i].cells[c]
        /\ \A i \in ActiveSet(TableBefore) : TableAfter.rows[i].cells[2] = "No"

\* C4 witness: a promotion has been handled on a table of three rows.
C4_Witness ==
    /\ Promoted
    /\ hist.raised = None
    /\ Len(TableAfter.rows) = 3

\* the section, the coordinate and the column policy of the last edit request
AtTable == hist.at.table
AtCoordinate == hist.at.coordinate
AtConfig == edit_config(AtTable)[AtCoordinate.column + 1]

\* the value the cell held when the edit was requested
RequestedValue == GetCellAt(hist.req.table[AtTable], AtCoordinate)

\* the last step was an editor resolving with a value (not None)
Resolved == hist.op = "submitted"

\* nothing of the tables, the domain data and the save count differs from snapshot
SameAs(snapshot) ==
    /\ table = snapshot.table
    /\ model = snapshot.model
    /\ saves = snapshot.saves

\* C5 as claimed: an editor resolving with the cell's current value posts no
\* Cell Value Change message.
C5_NoEventForEqualValue ==
    (Resolved /\ hist.result = RequestedValue) => queue = <<>>

\* C5 as amended: an editor resolving with the cell's current value does
\* post a message, with old_value = new_value, and the section controller
\* handles it without changing any cell, label, cursor, domain value or the
\* save count.
C5_EqualValueIsDiscarded ==
    /\ (Resolved /\ hist.result = RequestedValue)
          => /\ queue = << CellValueChange(AtTable, AtConfig, AtCoordinate,
                                           RequestedValue, RequestedValue) >>
             /\ SameAs(hist.req)
    /\ (hist.op = "cell_change" /\ hist.event.old_value = hist.event.new_value)
          => /\ SameAs(hist.req)
             /\ queue = <<>>
             /\ ~crashed

\* C5 witness: the controller has handled a message whose values are equal.
C5_Witness ==
    /\ hist.op = "cell_change"
    /\ hist.event.old_value = hist.event.new_value
    /\ hist.event.new_value = RequestedValue

\* C6: after an edit is cancelled no message is posted, and every cell, the
\* rows, the active rows, the domain data and the save count are what they
\* were when the edit was requested.
C6_CancelChangesNothing ==
    hist.op = "cancelled"
        => /\ queue = <<>>
           /\ screen = NoScreen
           /\ SameAs(hist.req)
           /\ ~crashed

\* C6 witness: an inline editor opened on a cell has been cancelled.
C6_Witness ==
    /\ hist.op = "cancelled"
    /\ AtConfig.inline
    /\ Len(table[AtTable].rows) >= 2

\* C7: after a submission whose value differs from the cell's value has
\* been handled, the cell at the edited coordinates holds the submitted value.
C7_CellShowsSubmittedValue ==
    (hist.op = "cell_change" /\ hist.event.old_value # hist.event.new_value)
        => GetCellAt(TableAfter, hist.event.coordinates) = hist.event.new_value

\* C8: an editor resolving with a value posts exactly one message, which
\* carries the column policy and the coordinate of the cell the edit was
\* requested on, that cell's value at the request as old_value and the
\* editor's result as new_value; once handled, no message is left.
C8_OneEventPerAcceptedEdit ==
    /\ Resolved
          => queue = << CellValueChange(AtTable, AtConfig, AtCoordinate,
                                        RequestedValue, hist.result) >>
    /\ hist.op = "cell_change"
          => /\ queue = <<>>
             /\ hist.event = CellValueChange(AtTable, AtConfig, AtCoordinate,
                                             RequestedValue, hist.result)
    /\ Len(queue) <= 1

\* C8 witness: an editor has resolved with a value other than the cell's.
C8_Witness ==
    /\ Resolved
    /\ hist.result # RequestedValue
    /\ Len(queue) = 1

\* the group bound to the section of the last edit request
AtGroup == model.groups[configuration_group[AtTable]]

\* the last step was a submission in the inline editor
Submitted == hist.op \in {"rejected", "submitted"} /\ AtConfig.inline

\* the failure descriptions of the validators of the edited column on the
\* text submitted last
SubmittedFailures ==
    Validate(AtTable, AtConfig.field_name, table[AtTable], model, AtGroup, hist.result)

\* C9: a submission in the inline editor that fails a validator leaves the
\* editor open showing the failure descriptions, posts no message and
\* changes no cell and no domain value.
C9_InvalidSubmissionStaysOpen ==
    (Submitted /\ SubmittedFailures # <<>>)
        => /\ hist.op = "rejected"
           /\ screen.kind = "inline"
           /\ screen.failures = SubmittedFailures
           /\ screen.table = AtTable
           /\ screen.coordinate = AtCoordinate
           /\ queue = <<>>
           /\ SameAs(hist.req)

\* C9 witness: a URL submission has been rejected by the URL validator.
C9_Witness ==
    /\ Submitted
    /\ AtConfig.field_name = "URL"
    /\ screen.kind = "inline"
    /\ screen.failures = <<"URL">>

\* the names of the entities of the section of the last edit request, in
\* the live domain source
SiblingNames ==
    CASE AtTable = Groups -> {model.groups[i].group_name : i \in 1..Len(model.groups)}
      [] AtTable = Profiles -> {AtGroup.profiles[i].profile_name : i \in 1..Len(AtGroup.profiles)}
      [] AtTable = Identities -> {AtGroup.alias_list[i].alias : i \in 1..Len(AtGroup.alias_list)}

\* C10: in the inline editor of a Name or Alias cell, submitting a name
\* that another entity of the live domain source bears is rejected (the
\* editor stays open, no message is posted); submitting the cell's own name
\* is never reported as a collision and, its length being valid, is accepted.
C10_RenameCollisionRejected ==
    (Submitted /\ AtCoordinate.column = 0) =>
        /\ (hist.result # RequestedValue /\ hist.result \in SiblingNames)
              => /\ hist.op = "rejected"
                 /\ screen.kind = "inline"
                 /\ queue = <<>>
        /\ hist.result = RequestedValue
              => /\ hist.op = "rejected"
                    => \A i \in DOMAIN screen.failures : screen.failures[i] = "Length"
                 /\ Len(hist.result) \in NameMin..NameMax => hist.op = "submitted"

\* C10 witness: a rename to a name that exists only since an earlier rename
\* has been rejected.
C10_Witness ==
    /\ Submitted
    /\ AtCoordinate.column = 0
    /\ hist.op = "rejected"
    /\ hist.result = "zeta"
    /\ hist.result # RequestedValue
    /\ hist.result \in SiblingNames

\* an editor is open: an edit is pending
Pending == screen.kind # "none"

Accepted == hist.op = "cell_change" /\ hist.event.old_value # hist.event.new_value

\* the positions of a step in the order of the handler's steps
StepsAt(step) == {i \in DOMAIN hist.steps : hist.steps[i] = step}

\* C12: after every accepted edit the handler has changed the domain data
\* and then called configuration.save() exactly once (the document written
\* is the changed one).
C12_SaveAfterEveryAcceptedEdit ==
    Accepted =>
        /\ saves = hist.pre.saves + 1
        /\ Cardinality(StepsAt("save")) = 1
        /\ \A i \in StepsAt("mutate"), j \in StepsAt("save") : i < j
        /\ hist.save_raised = None => disk[path] = model

\* C13: in the handling of every accepted edit the domain is changed
\* before configuration.save() is called, and the other sections are
\* notified (config_group_change) only after configuration.save().
C13_MutateSaveNotify ==
    Accepted =>
        /\ \A i \in StepsAt("mutate"), j \in StepsAt("save") : i < j
        /\ \A i \in StepsAt("save"), j \in StepsAt("notify") : i < j
        /\ StepsAt("notify") # {} => StepsAt("save") # {}

\* the domain's currently-active pointer of the section of the message
\* handled last: group_active, or the bound group's using_profile or
\* using_address
ActivePointer ==
    CASE hist.event.table = Groups -> model.group_active
      [] hist.event.table = Profiles -> model.groups[configuration_group[Profiles]].using_profile
      [] hist.event.table = Identities -> model.groups[configuration_group[Identities]].using_address

\* the column (0-based) that holds the domain key of a section's rows: the
\* Name, or the Address of an identity
KeyColumn(s) == IF s = Identities THEN 3 ELSE 0

\* C14: after every accepted Active edit the coordinator has returned (it
\* has not raised) the coordinate of the row that is now marked "Yes", the cursor is on that
\* row in column 0, and the domain's currently-active pointer is the domain
\* key shown in that row.
C14_ReturnsActiveRow ==
    Handled("Active") =>
        /\ hist.raised = None
        /\ hist.ret.column = 1
        /\ ActiveSet(TableAfter) = {hist.ret.row + 1}
        /\ TableAfter.cursor = Coordinate(hist.ret.row, 0)
        /\ ActivePointer = GetCellAt(TableAfter, Coordinate(hist.ret.row,
                                                            KeyColumn(hist.event.table)))

\* C16: an edit request on a Public Key or an Address cell of the
\* identities, the columns whose policy has editable = FALSE, opens no
\* editor, posts no message, raises nothing and changes no cell, no domain
\* value and no save count.
C16_NotEditableIsNoOp ==
    (hist.op = "action_edit" /\ AtTable = Identities /\ AtCoordinate.column \in {2, 3})
        => /\ screen = NoScreen
           /\ queue = <<>>
           /\ ~crashed
           /\ SameAs(hist.req)
           /\ table[AtTable].rows = hist.pre.table[AtTable].rows

\* C16 witness: an edit has been requested on the Address of an identity.
C16_Witness ==
    /\ hist.op = "action_edit"
    /\ AtTable = Identities
    /\ AtCoordinate.column = 3
    /\ IsValidCoordinate(table[Identities], AtCoordinate)

\* the cells a section's grid shows for the i-th entity of its source: the
\* groups of the configuration m, or the profiles or identities of its
\* group g (a position in m.groups)
EntityCells(s, m, g, i) ==
    CASE s = Groups ->
           << m.groups[i].group_name,
              IF m.groups[i].group_name = m.group_active THEN "Yes" ELSE "No" >>
      [] s = Profiles ->
           << m.groups[g].profiles[i].profile_name,
              IF m.groups[g].profiles[i].profile_name = m.groups[g].using_profile
              THEN "Yes" ELSE "No",
              m.groups[g].profiles[i].url >>
      [] s = Identities ->
           << m.groups[g].alias_list[i].alias,
              IF m.groups[g].address_list[i] = m.groups[g].using_address
              THEN "Yes" ELSE "No",
              m.groups[g].alias_list[i].public_key_base64,
              m.groups[g].address_list[i] >>

\* the number of entities of a section's source
EntityCount(s, m, g) ==
    CASE s = Groups -> Len(m.groups)
      [] s = Profiles -> Len(m.groups[g].profiles)
      [] s = Identities -> Len(m.groups[g].address_list)

\* the table t is the population of section s from its source: one row per
\* entity in the source's order, labelled with its position, "Yes" on the
\* entity the pointer names, the cursor in column 0 of that row or, when
\* the pointer names no entity, of row 0
Populated(t, s, m, g) ==
    /\ Len(t.rows) = EntityCount(s, m, g)
    /\ \A i \in 1..Len(t.rows) :
          /\ t.rows[i].label = i
          /\ t.rows[i].cells = EntityCells(s, m, g, i)
    /\ t.cursor.column = 0
    /\ IF ActiveSet(t) = {} THEN t.cursor.row = 0 ELSE t.cursor.row + 1 \in ActiveSet(t)

\* the group (its value) a section is bound to, None when it is bound to none
Bound(s) ==
    IF configuration_group[s] = 0 THEN <<>>
    ELSE <<model.groups[configuration_group[s]]>>

\* C17: when a new configuration is bound, the group grid is its
\* population; when a section gets bound to another group, the profile and
\* the identity grids are the populations of that group.
C17_RepopulatedOnSourceChange ==
    [][ /\ (hist'.op = "config_change" /\ ~crashed')
            => Populated(table'[Groups], Groups, model', 0)
        /\ \A s \in {Profiles, Identities} :
              ( /\ hist'.op \in {"config_change", "group_cell_select", "cell_change"}
                /\ ~crashed'
                /\ \/ configuration_group'[s] # configuration_group[s]
                   \/ hist'.op = "config_change" /\ Bound(s)' # Bound(s) )
                  => Populated(table'[s], s, model', configuration_group'[s]) ]_vars

\* C17 witness: the profile grid has just been bound to the group that has
\* one profile and none in use (one row, none active, cursor on row 0), and
\* the identity grid to its empty list of addresses.
C17_Witness ==
    /\ hist.op = "group_cell_select"
    /\ configuration_group[Profiles] = 2
    /\ Len(table[Profiles].rows) = 1
    /\ ActiveSet(table[Profiles]) = {}
    /\ table[Profiles].cursor = Coordinate(0, 0)
    /\ Len(table[Identities].rows) = 0

\* C19: when configuration.save() raises while an accepted edit is handled,
\* the handler leaves the grid showing the cells it showed before the edit
\* (the displayed cell is rolled back) or marks the edited row (its label
\* differs from the one it had).
C19_SaveFailureRolledBackOrFlagged ==
    (Accepted /\ hist.save_raised # None)
        => \/ \A i \in 1..Len(TableAfter.rows) :
                 TableAfter.rows[i].cells = TableBefore.rows[i].cells
           \/ TableAfter.rows[EditedRow].label # TableBefore.rows[EditedRow].label

\* the steps of the grid and of its editors: action_edit, and edit_cell and
\* edit_dialog up to and after their modal screen
GridOps == {"action_edit", "key_to_modal", "rejected", "submitted", "cancelled"}

\* C20: no step of the grid (action_edit, edit_cell, edit_dialog with their
\* editors) changes the domain data, the documents on disk or the number of
\* saves; these change only when a section controller handles a Cell Value
\* Change message, the live domain data being replaced besides only by the
\* document read when a configuration is loaded.
C20_GridNeverMutatesDomain ==
    [][ /\ hist'.op \in GridOps
            => (model' = model /\ disk' = disk /\ saves' = saves)
        /\ (disk' # disk \/ saves' # saves) => hist'.op = "cell_change"
        /\ model' # model
            => \/ hist'.op = "cell_change"
               \/ hist'.op = "config_change" /\ model' = disk[path'] ]_vars

\* C20 witness: the grid has posted the message of an accepted edit and the
\* domain data are still those at the request.
C20_Witness ==
    /\ hist.op = "submitted"
    /\ queue # <<>>
    /\ Head(queue).old_value # Head(queue).new_value
    /\ model = hist.req.model
    /\ saves = hist.req.saves

\* the names of the profiles of the group bound to the profile section
BoundProfileNames ==
    IF configuration_group[Profiles] = 0 THEN {}
    ELSE LET g == model.groups[configuration_group[Profiles]]
         IN  {g.profiles[i].profile_name : i \in 1..Len(g.profiles)}

\* C18: when the creation dialog of the Add action has returned an entity
\* that is no duplicate, the grid has a row for it at its end, and if the
\* entity was created active that row is the only one marked "Yes".
C18_AddAppendsRow ==
    (hist.op = "add_ok" /\ hist.result.name \notin BoundProfileNames)
        => LET t == table[Profiles]
           IN  /\ Len(t.rows) > 0
               /\ t.rows[Len(t.rows)].cells[1] = hist.result.name
               /\ hist.result.active => ActiveSet(t) = {Len(t.rows)}

\* the text consists of decimal digits after an optional sign
IsNumeral(text) ==
    \E sign \in {<<>>, <<"-">>} :
        \E n \in 1..MaxText :
            \E digits \in [1..n -> Digits] : text = sign \o digits

\* C15: an accepted submission resolves to a value of the type of the
\* cell's value: on an integer, "42" resolves to the integer 42 (and every
\* numeral to an integer whose text denotes the same number), while "abc"
\* and every other text that is no numeral resolve to None, after which no
\* message is posted and nothing has changed; on a text every submission
\* resolves to that text.
C15_ConvertsToOriginalType ==
    hist.op = "submitted" =>
        /\ hist.result.type \in {hist.value.type, "NoneType"}
        /\ (hist.value.type = "int" /\ hist.text = <<"4", "2">>)
              => hist.result = IntValue(42)
        /\ (hist.value.type = "int" /\ hist.text = <<"a", "b", "c">>)
              => hist.result.type = "NoneType"
        /\ hist.value.type = "int"
              => /\ (hist.result.type = "int") = IsNumeral(hist.text)
                 /\ hist.result.type = "int"
                       => int(str(hist.result)).value = hist.result
        /\ hist.value.type \in {"str", "Text"}
              => hist.result.type = hist.value.type /\ hist.result.text = hist.text
        /\ IF hist.result.type = "NoneType"
           THEN /\ queue = <<>>
                /\ table = [s \in Sections |-> Clear]
                /\ model = NoModel
                /\ saves = 0
                /\ disk = Docs
           ELSE /\ Len(queue) = 1
                /\ queue[1].old_value = str(hist.value)
                /\ queue[1].new_value = str(hist.result)

\* C15 witness: on an integer cell, the submission of "abc" has resolved
\* to None.
C15_Witness ==
    /\ hist.op = "submitted"
    /\ hist.value.type = "int"
    /\ hist.text = <<"a", "b", "c">>
    /\ hist.result.type = "NoneType"
    /\ screen = NoScreen

C22_DemoteSoloRow ==
    ( /\ Handled("Active")
      /\ hist.event.old_value = "Yes"
      /\ hist.event.new_value = "No"
      /\ Len(TableBefore.rows) = 1 )
        => /\ hist.raised = None
           /\ ~crashed
           /\ ActiveSet(TableAfter) = {}

\* the text submitted last is outside the length the first validator of the
\* edited name column allows
SubmittedLengthFails ==
    \/ Len(hist.result) < NameMin
    \/ Len(hist.result) > (IF AtTable = Identities THEN AliasMax ELSE NameMax)

\* the second validator of the edited name column, the uniqueness
\* predicate of its section, passes on the text submitted last
SubmittedUniquePasses ==
    CASE AtTable = Groups -> validate_group_name(table[Groups], model, hist.result)
      [] AtTable = Profiles -> validate_profile_name(table[Profiles], AtGroup, hist.result)
      [] AtTable = Identities -> validate_alias_name(table[Identities], AtGroup, hist.result)

\* C23: in a name column, whose validators are [Length, Function], a text
\* on which Length fails and the uniqueness predicate passes is not
\* accepted: the editor stays open on the same cell, it shows exactly the
\* failure description of Length, and no message is posted.
C23_FirstValidatorFailureShown ==
    (Submitted /\ AtCoordinate.column = 0 /\ SubmittedLengthFails /\ SubmittedUniquePasses)
        => /\ hist.op = "rejected"
           /\ screen.kind = "inline"
           /\ screen.failures = <<"Length">>
           /\ screen.table = AtTable
           /\ screen.coordinate = AtCoordinate
           /\ queue = <<>>
           /\ SameAs(hist.req)

\* C23 witness: "ab", too short and not the name of a group, has been
\* submitted for a group name and rejected with the failure of Length alone.
C23_Witness ==
    /\ hist.op = "rejected"
    /\ AtTable = Groups
    /\ AtCoordinate.column = 0
    /\ hist.result = "ab"
    /\ screen.kind = "inline"
    /\ screen.failures = <<"Length">>

\* the positions of the rows of t whose cell in column row_cell reads value
Matching(t, row_cell, value) ==
    {i \in 1..Len(t.rows) : t.rows[i].cells[row_cell + 1] = value}

\* C24: for every grid, column and value, row_with_value returns the rows
\* whose cell in that column reads the value, all of them and no other, in
\* the grid's order (the k-th row returned is the k-th matching row of the
\* grid), hence nothing when no row matches; and the grid is as it was.
C24_RowWithValue ==
    hist.op = "row_with_value" =>
        LET t == hist.grid
            idx == Matching(t, hist.row_cell, hist.value)
        IN  /\ Len(hist.found) = Cardinality(idx)
            /\ \A k \in 1..Len(hist.found) :
                  \E i \in idx :
                      /\ Cardinality({j \in idx : j < i}) = k - 1
                      /\ hist.found[k] = t.rows[i]
            /\ idx = {} => hist.found = <<>>
            /\ table[Profiles] = t

\* C24 witness: asked for the rows of a grid of three rows that read "No"
\* in the Active column, row_with_value has returned the first and the
\* third, in that order.
C24_Witness ==
    /\ hist.op = "row_with_value"
    /\ hist.row_cell = 1
    /\ hist.value = "No"
    /\ Len(hist.grid.rows) = 3
    /\ hist.grid.rows[2].cells[2] = "Yes"
    /\ hist.found = <<hist.grid.rows[1], hist.grid.rows[3]>>

\* the cells of a column of a table, in the table's order
ColumnCells(t, column) == [i \in 1..Len(t.rows) |-> t.rows[i].cells[column + 1]]

\* the URLs of the profiles of a group, in the group's order
profile_urls(g) == [i \in 1..Len(g.profiles) |-> g.profiles[i].url]

\* C25: once a configuration is bound, and after every message handled
\* since, each grid shows its source: the Name cells of the group grid are
\* the group names of the configuration, the Name and URL cells of the
\* profile grid are the names and URLs of the profiles of the bound group,
\* and the Alias cells of the identity grid are the aliases of the bound
\* group, in the source's order.
C25_GridIsProjection ==
    /\ configuration[Groups] # 0
          => ColumnCells(table[Groups], 0) = group_names(model)
    /\ configuration_group[Profiles] # 0
          => /\ ColumnCells(table[Profiles], 0)
                   = profile_names(model.groups[configuration_group[Profiles]])
             /\ ColumnCells(table[Profiles], 2)
                   = profile_urls(model.groups[configuration_group[Profiles]])
    /\ configuration_group[Identities] # 0
          => ColumnCells(table[Identities], 0)
                = alias_names(model.groups[configuration_group[Identities]])

\* C25 witness: a profile has been renamed and, in another edit, a URL has
\* been changed: the bound group and the profile grid both differ from the
\* document read, and agree.
C25_Witness ==
    /\ Handled("URL")
    /\ hist.raised = None
    /\ configuration_group[Profiles] # 0
    /\ profile_names(model.groups[configuration_group[Profiles]])
          # profile_names(Docs[path].groups[configuration_group[Profiles]])
    /\ profile_urls(model.groups[configuration_group[Profiles]])
          # profile_urls(Docs[path].groups[configuration_group[Profiles]])
    /\ ColumnCells(table[Profiles], 0)
          = profile_names(model.groups[configuration_group[Profiles]])
    /\ ColumnCells(table[Profiles], 2)
          = profile_urls(model.groups[configuration_group[Profiles]])

\* the elements of a sequence are pairwise distinct
Distinct(seq) == \A i, j \in DOMAIN seq : i # j => seq[i] # seq[j]

\* C26: the names of a section stay pairwise distinct, in the domain source
\* (the groups of the configuration, the profiles and the aliases of each
\* group) and in the grids, whatever renames have been accepted (in every
\* document read they are distinct).
C26_NamesStayUnique ==
    /\ Distinct(group_names(model))
    /\ \A g \in 1..Len(model.groups) :
          /\ Distinct(profile_names(model.groups[g]))
          /\ Distinct(alias_names(model.groups[g]))
    /\ \A s \in Sections : Distinct(ColumnCells(table[s], 0))

\* C26 witness: a group has been renamed, and a later rename of another
\* group to the new name has been rejected as not unique.
C26_Witness ==
    /\ hist.op = "rejected"
    /\ AtTable = Groups
    /\ screen.kind = "inline"
    /\ screen.failures = <<"Group name not unique.">>
    /\ hist.result \notin Range(group_names(Docs[path]))
    /\ hist.result \in Range(ColumnCells(table[Groups], 0))
    /\ Distinct(group_names(model))

\* the active pointer of the source of section s in the domain data m: the
\* active group of the configuration, the profile in use of the bound group
PointerIn(m, s) ==
    CASE s = Groups -> m.group_active
      [] s = Profiles -> m.groups[configuration_group[Profiles]].using_profile

\* the names of the entities of the source of section s in the domain data m
NamesIn(m, s) ==
    CASE s = Groups -> Range(group_names(m))
      [] s = Profiles -> Range(profile_names(m.groups[configuration_group[Profiles]]))

\* C27: a handled rename of a group or a profile completes; the active
\* pointer of the domain source follows the rename when it named the
\* renamed entity and is unchanged otherwise, so that a pointer that named
\* an entity still names one; and no cell of the Active column changes.
C27_RenameMovesPointer ==
    (Handled("Name") /\ hist.event.table \in {Groups, Profiles})
        => LET s == hist.event.table
               before == PointerIn(hist.pre.model, s)
               after == PointerIn(model, s)
           IN  /\ hist.raised = None
               /\ before = hist.event.old_value => after = hist.event.new_value
               /\ before # hist.event.old_value => after = before
               /\ before \in NamesIn(hist.pre.model, s) => after \in NamesIn(model, s)
               /\ ColumnCells(TableAfter, 1) = ColumnCells(TableBefore, 1)

\* C27 witness: the active group has been renamed and the active pointer
\* is the new name, on a row still marked "Yes".
C27_Witness ==
    /\ Handled("Name")
    /\ hist.event.table = Groups
    /\ hist.pre.model.group_active = hist.event.old_value
    /\ model.group_active = hist.event.new_value
    /\ GetCellAt(table[Groups], Right(hist.event.coordinates)) = "Yes"

\* C29: in every grid the label of every row is its 1-based position, so
\* the row index label - 1 that _switch_active computes for a row returned
\* by row_with_value is the index of that row.
C29_LabelIsPosition ==
    \A s \in Sections :
        LET t == table[s]
        IN  /\ \A i \in 1..Len(t.rows) : t.rows[i].label = i
            /\ \A value \in {"Yes", "No"} :
                  LET found == row_with_value(t, 1, value)
                  IN  \A k \in 1..Len(found) :
                          /\ IsValidCoordinate(t, Coordinate(found[k].label - 1, 1))
                          /\ t.rows[(found[k].label - 1) + 1] = found[k]

\* C29 witness: the active group, the first of three, has been demoted;
\* _switch_active has promoted the first "No" row, found through its label
\* (row 1), and the labels are still the positions.
C29_Witness ==
    /\ Handled("Active")
    /\ hist.event.table = Groups
    /\ hist.event.old_value = "Yes"
    /\ hist.event.coordinates = Coordinate(0, 1)
    /\ hist.raised = None
    /\ hist.ret = Coordinate(1, 1)
    /\ ColumnCells(table[Groups], 1) = <<"No", "Yes", "No">>
    /\ \A i \in 1..3 : table[Groups].rows[i].label = i

\* C30: on a grid none of whose rows is marked "Yes", a handled edit of an
\* Active cell that changes its value fails in _switch_active (IndexError)
\* with every cell, the domain data and the save count as before; and
\* whatever message is handled on such a grid, none of its rows is marked
\* "Yes" afterwards.
C30_NoActiveRowStaysSo ==
    (hist.op = "cell_change" /\ ActiveSet(TableBefore) = {})
        => /\ Handled("Active")
                 => /\ hist.raised = "IndexError"
                    /\ crashed
                    /\ hist.ret = None
                    /\ SameAs(hist.pre)
           /\ ActiveSet(TableAfter) = {}

\* C30 witness: on the profile grid of a group whose using_profile names
\* none of its profiles, the edit of an Active cell to "Yes" has failed.
C30_Witness ==
    /\ Handled("Active")
    /\ hist.event.table = Profiles
    /\ hist.event.new_value = "Yes"
    /\ Len(TableBefore.rows) >= 1
    /\ ActiveSet(TableBefore) = {}
    /\ hist.raised = "IndexError"
    /\ ActiveSet(table[Profiles]) = {}

\* the cell of t at a coordinate exists and reads value
Holds(t, coordinate, value) ==
    /\ IsValidCoordinate(t, coordinate)
    /\ GetCellAt(t, coordinate) = value

C31_URLEditFrame ==
    Handled("URL") =>
        LET g == configuration_group[Profiles]
            r == hist.event.coordinates.row + 1
        IN  /\ hist.event.table = Profiles
            /\ hist.raised = None
            /\ hist.pre.model.groups[g].profiles[r].profile_name
                  = GetCellAt(TableBefore, Coordinate(hist.event.coordinates.row, 0))
            /\ model = [hist.pre.model EXCEPT
                           !.groups[g].profiles[r].url = hist.event.new_value]
            /\ model.groups[g].using_profile = hist.pre.model.groups[g].using_profile
            /\ table = [hist.pre.table EXCEPT
                           ![Profiles].rows[r].cells[3] = hist.event.new_value]
            /\ ColumnCells(TableAfter, 0) = ColumnCells(TableBefore, 0)
            /\ ColumnCells(TableAfter, 1) = ColumnCells(TableBefore, 1)

\* C31 witness: the URL of the second of two profiles has been edited; the
\* first profile and its row are as before.
C31_Witness ==
    /\ Handled("URL")
    /\ hist.raised = None
    /\ hist.event.coordinates = Coordinate(1, 2)
    /\ Len(table[Profiles].rows) = 2
    /\ table[Profiles].rows[2].cells[3] = hist.event.new_value
    /\ table[Profiles].rows[1] = hist.pre.table[Profiles].rows[1]
    /\ model.groups[configuration_group[Profiles]].profiles[2].url = hist.event.new_value

\* the rows of grid t are the rows built from group g of m for section s
BuiltFrom(t, s, m, g) ==
    /\ Len(t.rows) = EntityCount(s, m, g)
    /\ \A i \in 1..Len(t.rows) : t.rows[i].cells = EntityCells(s, m, g, i)

\* every section is bound to group g and the profile and identity grids
\* hold that group's rows
BroadcastReached(g) ==
    /\ g # 0
    /\ \A s \in Sections : configuration_group[s] = g
    /\ BuiltFrom(table[Profiles], Profiles, model, g)
    /\ BuiltFrom(table[Identities], Identities, model, g)

\* the broadcasts of the handlers that complete: a config_change gives
\* every section the loaded configuration, a group Active switch binds
\* every section to the group the active pointer names, a selection of a
\* group's Name cell binds every section to the group named in that cell
BroadcastsOfCompletedHandlers ==
    /\ (hist.op = "config_change" /\ ~crashed)
          => /\ \A s \in Sections : configuration[s] = path
             /\ BroadcastReached(get_group(model, model.group_active))
    /\ (Handled("Active") /\ hist.event.table = Groups /\ hist.raised = None)
          => /\ model.group_active = GetCellAt(table[Groups], Left(hist.ret))
             /\ model.group_active # hist.pre.model.group_active
             /\ BroadcastReached(get_group(model, model.group_active))
    /\ (hist.op = "group_cell_select" /\ ~crashed /\ table[Groups].cursor.column = 0)
          => BroadcastReached(get_group(model, GetCellAt(table[Groups],
                                                         table[Groups].cursor)))

\* C32: after config_change every section holds the loaded configuration;
\* after an accepted group Active switch the active pointer names another
\* group than before and every section is bound to that newly active
\* group; after a selection of a group's Name cell every section is bound
\* to the group named in that cell; in both cases the profile and identity
\* grids hold that group's rows.
C32_BroadcastsReachEverySection ==
    /\ hist.op = "config_change"
          => /\ \A s \in Sections : configuration[s] = path
             /\ BroadcastReached(get_group(model, model.group_active))
    /\ (Handled("Active") /\ hist.event.table = Groups)
          => /\ model.group_active # hist.pre.model.group_active
             /\ BroadcastReached(get_group(model, model.group_active))
    /\ (hist.op = "group_cell_select" /\ table[Groups].cursor.column = 0)
          => BroadcastReached(get_group(model, GetCellAt(table[Groups],
                                                         table[Groups].cursor)))

\* C34: the Add-profile dialog resolves with a NewProfile only when both
\* the name and the URL are non-empty.
C34_AddProfileNeedsNameAndURL ==
    hist.op = "add_ok" => (hist.result.name # "" /\ hist.result.url # "")

\* the last step of the AddGroup dialog was OK and dismissed it
AddGroupResolved == hist.op = "on_ok" /\ hist.dismissed

\* what AddGroup.on_ok does: it dismisses the dialog with the NewGroup of
\* the input and the checkbox exactly when the input is non-empty and is
\* none of the names the dialog was constructed with
AddGroupOkConsultsNamesOnly ==
    hist.op = "on_ok" =>
        /\ hist.dismissed <=> (screen.value # <<>> /\ screen.value \notin Range(screen.names))
        /\ hist.dismissed => hist.result = NewGroup(screen.value, screen.checkbox)

\* C33: OK resolves the AddGroup dialog with a NewGroup only if the entered
\* name is non-empty, is none of the group names the dialog was constructed
\* with and satisfies the name pattern (3-32 letters, '_' or '-'); Cancel
\* and escape resolve it to None.
C33_AddGroupResolvesOnlyValidNames ==
    /\ AddGroupResolved
          => /\ screen.value # <<>>
             /\ screen.value \notin Range(screen.names)
             /\ Len(screen.value) \in 3..32
             /\ \A i \in 1..Len(screen.value) : screen.value[i] \in PatternChars
             /\ hist.result = NewGroup(screen.value, screen.checkbox)
    /\ hist.op \in {"on_cancel", "_on_key"}
          => (hist.dismissed /\ hist.result = None)

====
